---- MODULE Spec2Model ----
(***************************************************************************)
(* Model of the ape-dts snapshot pipeline:                                 *)
(*   - MysqlSnapshotExtractor (extract / extract_internal /                *)
(*     extract_by_slices / extract_all) running against a source table     *)
(*     that receives concurrent inserts and a consumer draining the        *)
(*     bounded buffer                                   (Spec)             *)
(*   - SnapshotParallelizer::partition                  (SpecPartition)    *)
(*   - PgSinker::sink_dml and its batch / serial paths  (SpecSink),        *)
(*     the same input applied twice                     (SpecResink)       *)
(*   - the same scan without inserts and errors, under fair scheduling     *)
(*                                                      (SpecLive)         *)
(*   - PgSinker::get_insert_query                       (SpecQuery)        *)
(*   - MysqlStructExtractor::extract                    (SpecStruct)       *)
(* Rows of the source table are identified by the value of their           *)
(* order_col, a positive integer, distinct per row.                        *)
(***************************************************************************)
EXTENDS Integers, Sequences, FiniteSets, TLC

\* ---------------------------------------------------------------- bounds
\* order_col values of the source table are 1..MaxKey
MaxKey == 4
\* configured slice_size ranges over 0..MaxSlice
MaxSlice == 2
\* capacity of the bounded buffer (ConcurrentQueue::bounded)
Capacity == 2
\* partition(): input length 0..MaxPartLen, parallele_size 0..MaxParallel
MaxPartLen == 4
MaxParallel == 3
\* sink_dml(): input length 0..MaxRows, batch_size 1..MaxBatch
MaxRows == 3
MaxBatch == 3
\* id_cols values of the rows handed to the sinker are 1..MaxId
MaxId == 2
\* tb_meta.basic.cols are 1 to MaxCols column names out of 1..MaxCols
MaxCols == 3
\* get_create_table_statements returns up to MaxTables statements
MaxTables == 3

\* the count and the logs of the slice queries stop growing at MaxQueries;
\* the loop itself is not cut (with slice_size >= 1 and at most MaxKey rows
\* a scan issues at most MaxKey + 1 queries)
MaxQueries == MaxKey + 2

VARIABLES
    \* ---- source table and extractor configuration
    table,          \* order_col values of the rows now in the source table
    initial,        \* the rows in the table when extract() was called
    inserted,       \* rows inserted during the scan: [key, start]
    has_order_col,  \* tb_meta.basic.order_col is Some
    slice_size,     \* self.slice_size
    \* ---- MysqlSnapshotExtractor
    pc,             \* position of extract()
    start_value,    \* <<>> is ColValue::None, <<k>> a bound value
    rows,           \* the open result set, not yet fetched
    cur,            \* <<row>> fetched by try_next and not yet pushed
    slice_count,
    queries,        \* number of SQL round trips issued
    slice_log,      \* slice_count of every finished slice
    observed_empty, \* the drain loop saw buffer.is_empty()
    buffer,         \* self.buffer
    shut_down,      \* self.shut_down
    pushed,         \* every row pushed into the buffer, in push order
    query_log,      \* per slice query: [start, npushed] when it was issued
    \* ---- consumer task
    cons_pc,        \* "drain", "check" (the drain was empty) or "exit"
    sunk,           \* every row handed to the sinkers, in order
    \* ---- SnapshotParallelizer::partition
    part_data, parallel_size, sub_datas, part_pc,
    \* ---- PgSinker
    data,           \* sink_dml's data: rows [row_type, id]; a row's values
                    \* are named by its position in data
    batch,          \* sink_dml's batch
    batch_size,     \* self.batch_size
    bad,            \* positions of the rows the target rejects
    sink_pc,        \* position of sink_dml
    sinked_count,   \* call_batch_fn!'s sinked_count
    serial_data,    \* serial_sink's data, as positions of sink_dml's data
    serial_idx,     \* rows of serial_data already executed
    serial_from,    \* serial_sink's caller: "direct" or "fallback"
    stmts,          \* every statement executed: [kind, rows, ok, dup]
    serial_calls,   \* the argument of every serial_sink call
    target,         \* the target table: pairs <<id, position of the row>>
    sink_result,    \* "none" while running, then "Ok" or "Panic"
    run,            \* 1 in the first sink_dml call on data, 2 in the second
    first_target,   \* the target when the first call had returned Ok
    \* ---- PgSinker::get_insert_query
    meta_cols,      \* tb_meta.basic.cols, a sequence of column names
    meta_id_cols,   \* tb_meta.basic.id_cols, a set of column names
    q_pc,           \* "start", then "done"
    q_cols,         \* the cols returned: one entry per placeholder
    set_pairs,      \* the SET pairs: [col, placeholder]
    conflict_cols,  \* the columns of ON CONFLICT (..)
    \* ---- MysqlStructExtractor
    st_pc,          \* position of extract()
    st_tables,      \* the statements get_create_table_statements returned
    st_idx,         \* statements of st_tables already pushed
    st_pushed,      \* the Ddl items pushed: "db" or a table statement
    st_fail_len,    \* Len(st_pushed) when a step failed, -1 if none did
    st_result       \* "none" while running, then "Ok" or "Err"

evars == <<table, initial, inserted, has_order_col, slice_size, pc,
           start_value, rows, cur, slice_count, queries, slice_log,
           observed_empty, buffer, shut_down, pushed>>
cvars == <<cons_pc, sunk>>
pvars == <<part_data, parallel_size, sub_datas, part_pc>>
svars == <<data, batch, batch_size, bad, sink_pc, sinked_count, serial_data,
           serial_idx, serial_from, stmts, serial_calls, target, sink_result>>
rvars == <<run, first_target>>
qvars == <<meta_cols, meta_id_cols, q_pc, q_cols, set_pairs, conflict_cols>>
tvars == <<st_pc, st_tables, st_idx, st_pushed, st_fail_len, st_result>>
vars == <<evars, query_log, cvars, pvars, svars, rvars, qvars, tvars>>

\* ---------------------------------------------------------------- helpers
Range(s) == {s[i] : i \in 1..Len(s)}

Min(a, b) == IF a < b THEN a ELSE b

SetMin(S) == CHOOSE m \in S : \A x \in S : m <= x

SetMax(S) == CHOOSE m \in S : \A x \in S : m >= x

RECURSIVE SeqsUpTo(_, _)
SeqsUpTo(S, n) ==
    IF n = 0 THEN {<<>>}
    ELSE LET shorter == SeqsUpTo(S, n - 1)
         IN  shorter \cup {Append(s, x) : s \in {t \in shorter : Len(t) = n - 1}, x \in S}

RECURSIVE Concat(_)
Concat(ss) == IF ss = <<>> THEN <<>> ELSE Head(ss) \o Concat(Tail(ss))

RemoveAt(s, i) == SubSeq(s, 1, i - 1) \o SubSeq(s, i + 1, Len(s))

\* ------------------------------------------------- idle values of the parts
ExtractIdle ==
    /\ table = {} /\ initial = {} /\ inserted = {}
    /\ has_order_col = TRUE /\ slice_size = 1
    /\ pc = "idle" /\ start_value = <<>> /\ rows = <<>> /\ cur = <<>>
    /\ slice_count = 0 /\ queries = 0 /\ slice_log = <<>>
    /\ observed_empty = FALSE /\ buffer = <<>> /\ shut_down = FALSE
    /\ pushed = <<>>
    /\ query_log = <<>> /\ cons_pc = "idle" /\ sunk = <<>>

PartitionIdle ==
    /\ part_data = <<>> /\ parallel_size = 0 /\ sub_datas = <<>>
    /\ part_pc = "idle"

SinkIdle ==
    /\ data = <<>> /\ batch = FALSE /\ batch_size = 1 /\ bad = {}
    /\ sink_pc = "idle" /\ sinked_count = 0 /\ serial_data = <<>>
    /\ serial_idx = 0 /\ serial_from = "none" /\ stmts = <<>>
    /\ serial_calls = <<>> /\ target = {} /\ sink_result = "none"
    /\ run = 0 /\ first_target = {}

QueryIdle ==
    /\ meta_cols = <<>> /\ meta_id_cols = {} /\ q_pc = "idle"
    /\ q_cols = <<>> /\ set_pairs = <<>> /\ conflict_cols = {}

StructIdle ==
    /\ st_pc = "idle" /\ st_tables = <<>> /\ st_idx = 0 /\ st_pushed = <<>>
    /\ st_fail_len = -1 /\ st_result = "none"

\* ============================================================ the source
\* ORDER BY order_col DESC (the direction mistaken)
RECURSIVE OrderByDesc(_)
OrderByDesc(S) ==
    IF S = {} THEN <<>>
    ELSE LET m == SetMax(S) IN <<m>> \o OrderByDesc(S \ {m})

\* ORDER BY order_col ASC
RECURSIVE OrderByAsc(_)
OrderByAsc(S) ==
    IF S = {} THEN <<>>
    ELSE LET m == SetMin(S) IN <<m>> \o OrderByAsc(S \ {m})

\* WHERE order_col >= ? (the boundary row is read again)
WhereGreaterOrEqual(tbl, start) ==
    IF start = <<>> THEN tbl ELSE {k \in tbl : k >= start[1]}

\* WHERE order_col > ?   (sql1 has no WHERE clause: start_value is None)
WhereGreater(tbl, start) ==
    IF start = <<>> THEN tbl ELSE {k \in tbl : k > start[1]}

\* LIMIT n
Limit(s, n) == SubSeq(s, 1, Min(n, Len(s)))

\* the result set of sql1 / sql2 on the table as it is when the query runs
SliceQuery(tbl, start, limit) ==
    Limit(OrderByAsc(WhereGreater(tbl, start)), limit)

\* MysqlColValueConvertor::from_query(&row, order_col, ..): the raw value of
\* the row's order_col
from_query(row) == <<row>>

\* the exit test of the empty-probe variant: the loop ends on a slice
\* without rows
SliceExhaustedOnEmpty(count, size) == count = 0

\* exit test that also stops on a full slice
SliceExhaustedOnFull(count, size) == count <= size

\* the loop's exit test
SliceExhausted(count, size) == count < size

\* ========================================================= the extractor
\* extract() -> extract_internal(): get_tb_meta(..)?
GetTbMeta ==
    /\ pc = "start"
    /\ \/ /\ pc' = IF has_order_col THEN "query" ELSE "all_query"
          /\ start_value' = <<>>
       \/ /\ pc' = "err"
          /\ UNCHANGED start_value
    /\ UNCHANGED <<table, initial, inserted, has_order_col, slice_size, rows,
                   cur, slice_count, queries, slice_log, observed_empty,
                   buffer, shut_down, pushed>>

\* one turn of the loop head: the query is chosen on start_value and run
IssueSliceQuery ==
    /\ pc = "query"
    /\ rows' = SliceQuery(table, start_value, slice_size)
    /\ slice_count' = 0
    /\ queries' = Min(queries + 1, MaxQueries)
    /\ query_log' = IF queries < MaxQueries
                    THEN Append(query_log, [start |-> start_value,
                                            npushed |-> Len(pushed)])
                    ELSE query_log
    /\ pc' = "fetch"
    /\ UNCHANGED <<table, initial, inserted, has_order_col, slice_size,
                   start_value, cur, slice_log, observed_empty, buffer,
                   shut_down, pushed>>

\* rows.try_next().await.unwrap() returning Some(row)
FetchRow ==
    /\ pc = "fetch"
    /\ rows # <<>>
    /\ cur' = <<Head(rows)>>
    /\ rows' = Tail(rows)
    /\ pc' = "push"
    /\ UNCHANGED <<table, initial, inserted, has_order_col, slice_size,
                   start_value, slice_count, queries, slice_log,
                   observed_empty, buffer, shut_down, pushed>>

\* rows.try_next() returning None: the slice is over, the exit test runs
EndSlice ==
    /\ pc = "fetch"
    /\ rows = <<>>
    /\ slice_log' = IF Len(slice_log) < MaxQueries
                    THEN Append(slice_log, slice_count)
                    ELSE slice_log
    /\ pc' = IF SliceExhausted(slice_count, slice_size) THEN "wait" ELSE "query"
    /\ UNCHANGED <<table, initial, inserted, has_order_col, slice_size,
                   start_value, rows, cur, slice_count, queries,
                   observed_empty, buffer, shut_down, pushed>>

\* rows.try_next() returning Err: unwrap() panics
ReadError ==
    /\ pc \in {"fetch", "all_fetch"}
    /\ pc' = "panic"
    /\ UNCHANGED <<table, initial, inserted, has_order_col, slice_size,
                   start_value, rows, cur, slice_count, queries, slice_log,
                   observed_empty, buffer, shut_down, pushed>>

\* the push without the update of start_value
PushRowKeepStart ==
    /\ pc = "push"
    /\ Len(buffer) < Capacity
    /\ buffer' = Append(buffer, cur[1])
    /\ pushed' = Append(pushed, cur[1])
    /\ slice_count' = slice_count + 1
    /\ cur' = <<>>
    /\ pc' = "fetch"
    /\ UNCHANGED <<table, initial, inserted, has_order_col, slice_size, rows,
                   start_value, queries, slice_log, observed_empty, shut_down>>

\* ExtractorUtil::push_row(..).await.unwrap(), then start_value = from_query
PushRow ==
    /\ pc = "push"
    /\ Len(buffer) < Capacity
    /\ buffer' = Append(buffer, cur[1])
    /\ pushed' = Append(pushed, cur[1])
    /\ start_value' = from_query(cur[1])
    /\ slice_count' = slice_count + 1
    /\ cur' = <<>>
    /\ pc' = "fetch"
    /\ UNCHANGED <<table, initial, inserted, has_order_col, slice_size, rows,
                   queries, slice_log, observed_empty, shut_down>>

\* push_row returning Err: unwrap() panics
PushError ==
    /\ pc \in {"push", "all_push"}
    /\ pc' = "panic"
    /\ UNCHANGED <<table, initial, inserted, has_order_col, slice_size,
                   start_value, rows, cur, slice_count, queries, slice_log,
                   observed_empty, buffer, shut_down, pushed>>

\* extract_all: SELECT * FROM db.tb, one cursor, no ORDER BY
IssueAllQuery ==
    /\ pc = "all_query"
    /\ rows' = OrderByAsc(table)
    /\ queries' = queries + 1
    /\ pc' = "all_fetch"
    /\ UNCHANGED <<table, initial, inserted, has_order_col, slice_size,
                   start_value, cur, slice_count, slice_log, observed_empty,
                   buffer, shut_down, pushed>>

\* without ORDER BY the server returns the rows in any order
AllFetchRow ==
    /\ pc = "all_fetch"
    /\ \E i \in 1..Len(rows) :
          /\ cur' = <<rows[i]>>
          /\ rows' = RemoveAt(rows, i)
    /\ pc' = "all_push"
    /\ UNCHANGED <<table, initial, inserted, has_order_col, slice_size,
                   start_value, slice_count, queries, slice_log,
                   observed_empty, buffer, shut_down, pushed>>

AllPushRow ==
    /\ pc = "all_push"
    /\ Len(buffer) < Capacity
    /\ buffer' = Append(buffer, cur[1])
    /\ pushed' = Append(pushed, cur[1])
    /\ cur' = <<>>
    /\ pc' = "all_fetch"
    /\ UNCHANGED <<table, initial, inserted, has_order_col, slice_size,
                   start_value, rows, slice_count, queries, slice_log,
                   observed_empty, shut_down>>

AllEnd ==
    /\ pc = "all_fetch"
    /\ rows = <<>>
    /\ pc' = "wait"
    /\ UNCHANGED <<table, initial, inserted, has_order_col, slice_size,
                   start_value, rows, cur, slice_count, queries, slice_log,
                   observed_empty, buffer, shut_down, pushed>>

\* the drain loop left out: the flag is stored right after the scan
SkipWaitBufferEmpty ==
    /\ pc = "wait"
    /\ pc' = "store"
    /\ UNCHANGED <<table, initial, inserted, has_order_col, slice_size,
                   start_value, rows, cur, slice_count, queries, slice_log,
                   observed_empty, buffer, shut_down, pushed>>

\* the loop condition confused with "buffer is full": the loop is left as
\* soon as the buffer has room
WaitBufferNotFull ==
    /\ pc = "wait"
    /\ Len(buffer) < Capacity
    /\ observed_empty' = TRUE
    /\ pc' = "store"
    /\ UNCHANGED <<table, initial, inserted, has_order_col, slice_size,
                   start_value, rows, cur, slice_count, queries, slice_log,
                   buffer, shut_down, pushed>>

\* while !self.buffer.is_empty() { sleep_millis(1) }: the loop is left on
\* the first poll that finds the buffer empty
WaitBufferEmpty ==
    /\ pc = "wait"
    /\ buffer = <<>>
    /\ observed_empty' = TRUE
    /\ pc' = "store"
    /\ UNCHANGED <<table, initial, inserted, has_order_col, slice_size,
                   start_value, rows, cur, slice_count, queries, slice_log,
                   buffer, shut_down, pushed>>

\* Ok(()) without the store of the flag
ReturnWithoutStore ==
    /\ pc = "store"
    /\ pc' = "done"
    /\ UNCHANGED <<table, initial, inserted, has_order_col, slice_size,
                   start_value, rows, cur, slice_count, queries, slice_log,
                   observed_empty, buffer, shut_down, pushed>>

\* self.shut_down.store(true, Ordering::Release); Ok(())
StoreShutDown ==
    /\ pc = "store"
    /\ shut_down' = TRUE
    /\ pc' = "done"
    /\ UNCHANGED <<table, initial, inserted, has_order_col, slice_size,
                   start_value, rows, cur, slice_count, queries, slice_log,
                   observed_empty, buffer, pushed>>

\* --------------------------------------------------------- environment
Scanning == pc \in {"start", "query", "fetch", "push",
                    "all_query", "all_fetch", "all_push"}

\* another session inserts a row while the scan runs
SourceInsert ==
    /\ Scanning
    /\ \E k \in (1..MaxKey) \ table :
          /\ table' = table \cup {k}
          /\ inserted' = inserted \cup {[key |-> k, start |-> start_value]}
    /\ UNCHANGED <<initial, has_order_col, slice_size, pc, start_value, rows,
                   cur, slice_count, queries, slice_log, observed_empty,
                   buffer, shut_down, pushed>>

\* the producer task: after extract() returned Err it makes sure the
\* shutdown flag is set (after Ok the extractor has stored it already)
ProducerEnsureShutDown ==
    /\ pc = "err"
    /\ shut_down' = TRUE
    /\ pc' = "failed"
    /\ UNCHANGED <<table, initial, inserted, has_order_col, slice_size,
                   start_value, rows, cur, slice_count, queries, slice_log,
                   observed_empty, buffer, pushed>>

\* the consumer drains the buffer and hands the batch to the sinkers
ConsumerDrain ==
    /\ pc # "idle"
    /\ cons_pc = "drain"
    /\ buffer # <<>>
    /\ buffer' = <<>>
    /\ sunk' = sunk \o buffer
    /\ UNCHANGED cons_pc
    /\ UNCHANGED <<table, initial, inserted, has_order_col, slice_size, pc,
                   start_value, rows, cur, slice_count, queries, slice_log,
                   observed_empty, shut_down, pushed>>

\* the drain returns no item
ConsumerDrainEmpty ==
    /\ cons_pc = "drain"
    /\ buffer = <<>>
    /\ cons_pc' = "check"
    /\ UNCHANGED <<sunk, evars>>

\* after an empty drain the consumer reads the shutdown flag: it exits
\* when the flag is set and drains again otherwise
ConsumerCheckShutDown ==
    /\ cons_pc = "check"
    /\ cons_pc' = IF shut_down THEN "exit" ELSE "drain"
    /\ UNCHANGED <<sunk, evars>>

Init ==
    /\ table \in SUBSET (1..MaxKey)
    /\ initial = table
    /\ inserted = {}
    /\ has_order_col \in BOOLEAN
    /\ slice_size \in 0..MaxSlice
    /\ pc = "start"
    /\ start_value = <<>> /\ rows = <<>> /\ cur = <<>>
    /\ slice_count = 0 /\ queries = 0 /\ slice_log = <<>>
    /\ observed_empty = FALSE /\ buffer = <<>> /\ shut_down = FALSE
    /\ pushed = <<>>
    /\ query_log = <<>> /\ cons_pc = "drain" /\ sunk = <<>>
    /\ PartitionIdle
    /\ SinkIdle
    /\ QueryIdle
    /\ StructIdle

Next ==
    \/ (GetTbMeta /\ UNCHANGED <<query_log, cvars, pvars, svars, rvars, qvars, tvars>>)
    \/ (IssueSliceQuery /\ UNCHANGED <<cvars, pvars, svars, rvars, qvars, tvars>>)
    \/ (FetchRow /\ UNCHANGED <<query_log, cvars, pvars, svars, rvars, qvars, tvars>>)
    \/ (EndSlice /\ UNCHANGED <<query_log, cvars, pvars, svars, rvars, qvars, tvars>>)
    \/ (ReadError /\ UNCHANGED <<query_log, cvars, pvars, svars, rvars, qvars, tvars>>)
    \/ (PushRow /\ UNCHANGED <<query_log, cvars, pvars, svars, rvars, qvars, tvars>>)
    \/ (PushError /\ UNCHANGED <<query_log, cvars, pvars, svars, rvars, qvars, tvars>>)
    \/ (IssueAllQuery /\ UNCHANGED <<query_log, cvars, pvars, svars, rvars, qvars, tvars>>)
    \/ (AllFetchRow /\ UNCHANGED <<query_log, cvars, pvars, svars, rvars, qvars, tvars>>)
    \/ (AllPushRow /\ UNCHANGED <<query_log, cvars, pvars, svars, rvars, qvars, tvars>>)
    \/ (AllEnd /\ UNCHANGED <<query_log, cvars, pvars, svars, rvars, qvars, tvars>>)
    \/ (WaitBufferEmpty /\ UNCHANGED <<query_log, cvars, pvars, svars, rvars, qvars, tvars>>)
    \/ (StoreShutDown /\ UNCHANGED <<query_log, cvars, pvars, svars, rvars, qvars, tvars>>)
    \/ (SourceInsert /\ UNCHANGED <<query_log, cvars, pvars, svars, rvars, qvars, tvars>>)
    \/ (ProducerEnsureShutDown /\ UNCHANGED <<query_log, cvars, pvars, svars, rvars, qvars, tvars>>)
    \/ (ConsumerDrain /\ UNCHANGED <<query_log, pvars, svars, rvars, qvars, tvars>>)
    \/ (ConsumerDrainEmpty /\ UNCHANGED <<query_log, pvars, svars, rvars, qvars, tvars>>)
    \/ (ConsumerCheckShutDown /\ UNCHANGED <<query_log, pvars, svars, rvars, qvars, tvars>>)

Spec == Init /\ [][Next]_vars

\* ------------------------------------------------------------------
\* The scan of a static table without read or push errors, the producer
\* and the consumer both scheduled fairly (two tasks on the runtime).
ProducerStep ==
    \/ (GetTbMeta /\ UNCHANGED <<query_log, cvars, pvars, svars, rvars, qvars, tvars>>)
    \/ (IssueSliceQuery /\ UNCHANGED <<cvars, pvars, svars, rvars, qvars, tvars>>)
    \/ (FetchRow /\ UNCHANGED <<query_log, cvars, pvars, svars, rvars, qvars, tvars>>)
    \/ (EndSlice /\ UNCHANGED <<query_log, cvars, pvars, svars, rvars, qvars, tvars>>)
    \/ (PushRow /\ UNCHANGED <<query_log, cvars, pvars, svars, rvars, qvars, tvars>>)
    \/ (IssueAllQuery /\ UNCHANGED <<query_log, cvars, pvars, svars, rvars, qvars, tvars>>)
    \/ (AllFetchRow /\ UNCHANGED <<query_log, cvars, pvars, svars, rvars, qvars, tvars>>)
    \/ (AllPushRow /\ UNCHANGED <<query_log, cvars, pvars, svars, rvars, qvars, tvars>>)
    \/ (AllEnd /\ UNCHANGED <<query_log, cvars, pvars, svars, rvars, qvars, tvars>>)
    \/ (WaitBufferEmpty /\ UNCHANGED <<query_log, cvars, pvars, svars, rvars, qvars, tvars>>)
    \/ (StoreShutDown /\ UNCHANGED <<query_log, cvars, pvars, svars, rvars, qvars, tvars>>)
    \/ (ProducerEnsureShutDown /\ UNCHANGED <<query_log, cvars, pvars, svars, rvars, qvars, tvars>>)

ConsumerStep ==
    \/ (ConsumerDrain /\ UNCHANGED <<query_log, pvars, svars, rvars, qvars, tvars>>)
    \/ (ConsumerDrainEmpty /\ UNCHANGED <<query_log, pvars, svars, rvars, qvars, tvars>>)
    \/ (ConsumerCheckShutDown /\ UNCHANGED <<query_log, pvars, svars, rvars, qvars, tvars>>)

NextLive == ProducerStep \/ ConsumerStep

SpecLive ==
    /\ Init
    /\ [][NextLive]_vars
    /\ WF_vars(ProducerStep)
    /\ WF_vars(ConsumerStep)

\* =================================================== SnapshotParallelizer
\* rows dealt round the partitions instead of filled in contiguous runs
RoundRobinIndex(i, avg) == i % avg

\* sub_datas[i / avg_size]: the partition of the row at 0-based index i
PartitionIndex(i, avg) == i \div avg

\* the balanced size: the ceiling of len / parallele_size
AvgSizeCeiling(len, p) == (len + p - 1) \div p

\* an avg_size one larger
AvgSizePlusTwo(len, p) == (len \div p) + 2

\* let avg_size = data.len() / parallele_size + 1
AvgSize(len, p) == (len \div p) + 1

\* for (i, row_data) in data.into_iter().enumerate() { sub_datas[..].push }
\* from the 1-based position i on; an index outside sub_datas panics
RECURSIVE FillPartitions(_, _, _, _)
FillPartitions(subs, d, i, avg) ==
    IF i > Len(d) THEN [result |-> "Ok", sub_datas |-> subs]
    ELSE LET k == PartitionIndex(i - 1, avg)
         IN  IF k >= Len(subs)
             THEN [result |-> "Panic", sub_datas |-> subs]
             ELSE FillPartitions([subs EXCEPT ![k + 1] = Append(@, d[i])],
                                 d, i + 1, avg)

\* SnapshotParallelizer::partition(data, parallele_size)
partition(d, p) ==
    IF p <= 1 THEN [result |-> "Ok", sub_datas |-> <<d>>]
    ELSE FillPartitions([k \in 1..p |-> <<>>], d, 1, AvgSize(Len(d), p))

\* one call of partition on the chosen input
Partition ==
    /\ part_pc = "start"
    /\ LET r == partition(part_data, parallel_size)
       IN  /\ sub_datas' = r.sub_datas
           /\ part_pc' = r.result
    /\ UNCHANGED <<part_data, parallel_size>>

InitPartition ==
    /\ part_data \in SeqsUpTo(1..MaxPartLen, MaxPartLen)
    /\ parallel_size \in 0..MaxParallel
    /\ sub_datas = <<>>
    /\ part_pc = "start"
    /\ ExtractIdle
    /\ SinkIdle
    /\ QueryIdle
    /\ StructIdle

NextPartition == Partition /\ UNCHANGED <<evars, query_log, cvars, svars, rvars, qvars, tvars>>

SpecPartition == InitPartition /\ [][NextPartition]_vars

\* ================================================================ PgSinker
RowTypes == {"Insert", "Update", "Delete"}

RowSet == [row_type : RowTypes, id : 1..MaxId]

\* positions from + 1 .. from + n of data
Positions(from, n) == [i \in 1..n |-> from + i]

\* the fallback slice taken from the start of data
SubDataFromStart(sinked, n) == Positions(0, n)

\* let sub_data = &data[sinked_count..sinked_count + batch_size]
SubData(sinked, n) == Positions(sinked, n)

\* call_batch_fn!: the size of the sub-batch starting at sinked_count
CurBatchSize == Min(batch_size, Len(data) - sinked_count)

\* a plain INSERT, without ON CONFLICT, as the statement of Insert rows
StatementKindPlainInsert(row_type) ==
    CASE row_type = "Insert" -> "insert"
      [] row_type = "Update" -> "update"
      [] OTHER -> "delete"

\* serial_sink: the single-row statement is chosen on the row's row_type
\* (get_insert_query: INSERT .. ON CONFLICT (id_cols) DO UPDATE SET ..)
StatementKind(row_type) ==
    CASE row_type = "Insert" -> "upsert"
      [] row_type = "Update" -> "update"
      [] OTHER -> "delete"

\* the target after a statement of kind k over the rows at positions ps
RECURSIVE Apply(_, _, _)
Apply(tgt, k, ps) ==
    IF ps = <<>> THEN tgt
    ELSE LET p == Head(ps)
             id == data[p].id
             others == {t \in tgt : t[1] # id}
             next ==
                 CASE k \in {"upsert", "batch_insert", "insert"} ->
                          others \cup {<<id, p>>}
                   [] k \in {"delete", "batch_delete"} -> others
                   [] OTHER -> IF others = tgt THEN tgt
                                ELSE others \cup {<<id, p>>}
         IN  Apply(next, k, Tail(ps))

\* a plain INSERT of the row at position p hits the unique key on id_cols
DuplicateKey(k, p) == k = "insert" /\ \E t \in target : t[1] = data[p].id

\* a statement over a rejected row fails; any statement may fail
Outcomes(ps) == IF Range(ps) \cap bad # {} THEN {FALSE} ELSE BOOLEAN

\* after a sub-batch of n rows is done: sinked_count += batch_size and the
\* loop of call_batch_fn! ends when sinked_count = all_count
AdvanceBatch(n, again) ==
    /\ sinked_count' = sinked_count + n
    /\ IF sinked_count + n = Len(data)
       THEN sink_pc' = "done" /\ sink_result' = "Ok"
       ELSE sink_pc' = again /\ sink_result' = sink_result

\* sink_dml: the empty input, then the choice of path on batch and on
\* data[0].row_type
SinkDml ==
    /\ sink_pc = "start"
    /\ IF Len(data) = 0
       THEN /\ sink_pc' = "done" /\ sink_result' = "Ok"
            /\ UNCHANGED <<serial_data, serial_from, serial_calls>>
       ELSE IF batch /\ data[1].row_type = "Insert"
       THEN /\ sink_pc' = "batch_insert"
            /\ UNCHANGED <<sink_result, serial_data, serial_from, serial_calls>>
       ELSE IF batch /\ data[1].row_type = "Delete"
       THEN /\ sink_pc' = "batch_delete"
            /\ UNCHANGED <<sink_result, serial_data, serial_from, serial_calls>>
       ELSE /\ sink_pc' = "serial"
            /\ serial_data' = Positions(0, Len(data))
            /\ serial_from' = "direct"
            /\ serial_calls' = Append(serial_calls, Positions(0, Len(data)))
            /\ UNCHANGED sink_result
    /\ UNCHANGED <<data, batch, batch_size, bad, sinked_count, serial_idx,
                   stmts, target>>

\* batch_insert on the sub-batch at sinked_count: the statement succeeds,
\* or fails and the sub-batch is handed to serial_sink
BatchInsert ==
    /\ sink_pc = "batch_insert"
    /\ LET n == CurBatchSize
           ps == Positions(sinked_count, n)
       IN  \E ok \in Outcomes(ps) :
              /\ stmts' = Append(stmts, [kind |-> "batch_insert", rows |-> ps,
                                         ok |-> ok, dup |-> FALSE])
              /\ IF ok
                 THEN /\ target' = Apply(target, "batch_insert", ps)
                      /\ AdvanceBatch(n, "batch_insert")
                      /\ UNCHANGED <<serial_data, serial_idx, serial_from, serial_calls>>
                 ELSE /\ serial_data' = SubData(sinked_count, n)
                      /\ serial_idx' = 0
                      /\ serial_from' = "fallback"
                      /\ serial_calls' = Append(serial_calls, SubData(sinked_count, n))
                      /\ sink_pc' = "serial"
                      /\ UNCHANGED <<target, sinked_count, sink_result>>
    /\ UNCHANGED <<data, batch, batch_size, bad>>

\* batch_delete on the sub-batch at sinked_count: execute(..).await.unwrap()
BatchDelete ==
    /\ sink_pc = "batch_delete"
    /\ LET n == CurBatchSize
           ps == Positions(sinked_count, n)
       IN  \E ok \in Outcomes(ps) :
              /\ stmts' = Append(stmts, [kind |-> "batch_delete", rows |-> ps,
                                         ok |-> ok, dup |-> FALSE])
              /\ IF ok
                 THEN /\ target' = Apply(target, "batch_delete", ps)
                      /\ AdvanceBatch(n, "batch_delete")
                 ELSE /\ sink_pc' = "done" /\ sink_result' = "Panic"
                      /\ UNCHANGED <<target, sinked_count>>
    /\ UNCHANGED <<data, batch, batch_size, bad, serial_data, serial_idx,
                   serial_from, serial_calls>>

\* serial_sink returning Ok(()): to sink_dml, or to batch_insert and the
\* loop of call_batch_fn!
SerialReturn ==
    IF serial_from = "direct"
    THEN sink_pc' = "done" /\ sink_result' = "Ok" /\ UNCHANGED sinked_count
    ELSE AdvanceBatch(Len(serial_data), "batch_insert")

\* a failed single-row statement that is skipped over
SerialStatementSwallowed(p, ok) ==
    /\ target' = IF ok THEN Apply(target, StatementKind(data[p].row_type), <<p>>)
                 ELSE target
    /\ serial_idx' = serial_idx + 1
    /\ IF serial_idx + 1 = Len(serial_data)
       THEN SerialReturn
       ELSE UNCHANGED <<sink_pc, sink_result, sinked_count>>

\* query.execute(&self.conn_pool).await.unwrap() for the row at position p
SerialStatement(p, ok) ==
    IF ok
    THEN /\ target' = Apply(target, StatementKind(data[p].row_type), <<p>>)
         /\ serial_idx' = serial_idx + 1
         /\ IF serial_idx + 1 = Len(serial_data)
            THEN SerialReturn
            ELSE UNCHANGED <<sink_pc, sink_result, sinked_count>>
    ELSE /\ sink_pc' = "done" /\ sink_result' = "Panic"
         /\ UNCHANGED <<target, serial_idx, sinked_count>>

\* one turn of serial_sink's loop
SerialSink ==
    /\ sink_pc = "serial"
    /\ serial_idx < Len(serial_data)
    /\ LET p == serial_data[serial_idx + 1]
           k == StatementKind(data[p].row_type)
       IN  \E ok \in (IF DuplicateKey(k, p) THEN {FALSE} ELSE Outcomes(<<p>>)) :
              /\ stmts' = Append(stmts, [kind |-> k, rows |-> <<p>>, ok |-> ok,
                                         dup |-> DuplicateKey(k, p)])
              /\ SerialStatement(p, ok)
    /\ UNCHANGED <<data, batch, batch_size, bad, serial_data, serial_from,
                   serial_calls>>

\* get_tb_meta(..) failing: serial_sink and the batch functions return Err
\* with ?, which the caller unwraps
SinkMetaError ==
    /\ sink_pc \in {"batch_insert", "batch_delete", "serial"}
    /\ sink_pc' = "done" /\ sink_result' = "Panic"
    /\ UNCHANGED <<data, batch, batch_size, bad, sinked_count, serial_data,
                   serial_idx, serial_from, stmts, serial_calls, target>>

InitSink ==
    /\ data \in SeqsUpTo(RowSet, MaxRows)
    /\ batch \in BOOLEAN
    /\ batch_size \in 1..MaxBatch
    /\ bad \in {{}} \cup {{p} : p \in 1..Len(data)}
    /\ sink_pc = "start" /\ sinked_count = 0 /\ serial_data = <<>>
    /\ serial_idx = 0 /\ serial_from = "none" /\ stmts = <<>>
    /\ serial_calls = <<>> /\ target = {} /\ sink_result = "none"
    /\ run = 1 /\ first_target = {}
    /\ ExtractIdle
    /\ PartitionIdle
    /\ QueryIdle
    /\ StructIdle

NextSink ==
    \/ (SinkDml /\ UNCHANGED <<evars, query_log, cvars, pvars, rvars, qvars, tvars>>)
    \/ (BatchInsert /\ UNCHANGED <<evars, query_log, cvars, pvars, rvars, qvars, tvars>>)
    \/ (BatchDelete /\ UNCHANGED <<evars, query_log, cvars, pvars, rvars, qvars, tvars>>)
    \/ (SerialSink /\ UNCHANGED <<evars, query_log, cvars, pvars, rvars, qvars, tvars>>)
    \/ (SinkMetaError /\ UNCHANGED <<evars, query_log, cvars, pvars, rvars, qvars, tvars>>)

SpecSink == InitSink /\ [][NextSink]_vars

\* ------------------------------------------------------------------
\* The same data handed to sink_dml a second time after the first call
\* returned Ok (a snapshot run again against the same target), on the
\* batch or on the serial path.
SinkAgain ==
    /\ sink_pc = "done" /\ sink_result = "Ok" /\ run = 1
    /\ run' = 2
    /\ first_target' = target
    /\ batch' \in BOOLEAN
    /\ sink_pc' = "start" /\ sink_result' = "none" /\ sinked_count' = 0
    /\ serial_data' = <<>> /\ serial_idx' = 0 /\ serial_from' = "none"
    /\ UNCHANGED <<data, batch_size, bad, stmts, serial_calls, target>>

NextResink ==
    \/ NextSink
    \/ (SinkAgain /\ UNCHANGED <<evars, query_log, cvars, pvars, qvars, tvars>>)

SpecResink == InitSink /\ [][NextResink]_vars

\* ------------------------------------------------------ extractor claims
\* extract_by_slices / extract_all has returned Ok to extract_internal
Returned == pc \in {"wait", "store", "done"}

StrictlyAscending(s) == \A i, j \in 1..Len(s) : i < j => s[i] < s[j]

NoDuplicates(s) == \A i, j \in 1..Len(s) : i # j => s[i] # s[j]

\* k is above the start value (ColValue::None is below every value)
AboveStart(k, start) == start = <<>> \/ k > start[1]

\* C1: the extractor stores shut_down only after the last push and after it
\* saw the buffer empty: whenever shut_down is true (and was not set by the
\* producer task after an Err) no fetched row waits to
\* be pushed, the result set is consumed, the buffer was observed empty and
\* is empty, and no step taken while shut_down is true pushes a row.
C1_ShutdownAfterLastPush ==
    /\ []((shut_down /\ pc # "failed") =>
            /\ pc = "done"
            /\ cur = <<>> /\ rows = <<>>
            /\ observed_empty
            /\ buffer = <<>>)
    /\ [][shut_down => pushed' = pushed]_vars

C1_Witness == shut_down /\ Len(pushed) >= 2 /\ pc = "done"

\* C2: with an order_col and slice_size >= 1, under any interleaving of
\* inserts: no row is pushed twice; every pushed row that was not in the
\* table at scan start was inserted during the scan above the start value
\* of that moment; once extract_by_slices has returned, every row of the
\* table at scan start has been pushed.
C2_ExactlyOnce ==
    (has_order_col /\ slice_size >= 1) =>
        /\ NoDuplicates(pushed)
        /\ \A i \in 1..Len(pushed) :
              pushed[i] \notin initial =>
                  \E r \in inserted :
                      r.key = pushed[i] /\ AboveStart(r.key, r.start)
        /\ Returned => initial \subseteq Range(pushed)

C2_Witness ==
    /\ has_order_col /\ slice_size >= 1 /\ Returned
    /\ Cardinality(initial) >= 2
    /\ \E i \in 1..Len(pushed) : pushed[i] \notin initial
    /\ \E r \in inserted : r.key \notin Range(pushed)

\* C9: on a static table of N rows with slice_size S >= 1 the loop stops
\* after the first slice shorter than S and not before: every slice but
\* the last returned S rows, the last fewer, and N \div S + 1 queries ran.
C9_ContinueUntilShort ==
    (has_order_col /\ slice_size >= 1 /\ inserted = {} /\ Returned) =>
        /\ queries = (Cardinality(initial) \div slice_size) + 1
        /\ Len(slice_log) = queries
        /\ \A i \in 1..Len(slice_log) :
              IF i < Len(slice_log) THEN slice_log[i] = slice_size
              ELSE slice_log[i] < slice_size

\* a positive multiple of S: the last query is the probe returning 0 rows
C9_Witness ==
    /\ has_order_col /\ slice_size = 2 /\ inserted = {} /\ Returned
    /\ Cardinality(initial) = 4
    /\ queries = 3 /\ slice_log = <<2, 2, 0>>

\* C10: with an order_col the rows are pushed in strictly ascending
\* order_col order over the whole scan, slice boundaries included.
C10_AscendingPushes == has_order_col => StrictlyAscending(pushed)

\* rows of two slices have been pushed
C10_Witness ==
    /\ has_order_col
    /\ slice_log # <<>> /\ slice_count >= 1
    /\ Len(pushed) > slice_count

\* ------------------------------------------------------ partition claims
CeilDiv(a, b) == (a + b - 1) \div b

\* C3: for every data and every P >= 0, partition returns (it does not
\* index outside the partitions) and the concatenation of the partitions
\* in index order is data.
C3_ConcatIsData ==
    part_pc # "start" =>
        /\ part_pc = "Ok"
        /\ Concat(sub_datas) = part_data

\* rows spread over several partitions, the last partitions empty
C3_Witness ==
    /\ part_pc = "Ok" /\ parallel_size = 3 /\ Len(part_data) = 4
    /\ sub_datas = <<SubSeq(part_data, 1, 2), SubSeq(part_data, 3, 4), <<>>>>

\* C4 as stated: at most P partitions, each of size <= ceil(len / P)
C4_Original ==
    (part_pc = "Ok" /\ parallel_size >= 1) =>
        /\ Len(sub_datas) <= parallel_size
        /\ \A k \in 1..Len(sub_datas) :
              Len(sub_datas[k]) <= CeilDiv(Len(part_data), parallel_size)

\* C4 amended: for P >= 1, at most P partitions, each of size
\* <= floor(len / P) + 1
C4_SizeBound ==
    (part_pc = "Ok" /\ parallel_size >= 1) =>
        /\ Len(sub_datas) <= parallel_size
        /\ \A k \in 1..Len(sub_datas) :
              Len(sub_datas[k]) <= (Len(part_data) \div parallel_size) + 1

\* len a positive multiple of P: a partition of floor(len / P) + 1 rows,
\* more than ceil(len / P)
C4_Witness ==
    /\ part_pc = "Ok" /\ parallel_size = 2 /\ Len(part_data) = 4
    /\ Len(sub_datas[1]) = 3 /\ Len(sub_datas[2]) = 1

\* ----------------------------------------------------------- sink claims
IsBatch(s) == s.kind \in {"batch_insert", "batch_delete"}

\* the single-row statements executed after statement n and before the
\* next batch statement
NextBatchAfter(n) ==
    LET later == {m \in (n + 1)..Len(stmts) : IsBatch(stmts[m])}
    IN  IF later = {} THEN Len(stmts) + 1 ELSE SetMin(later)

Segment(n) == SubSeq(stmts, n + 1, NextBatchAfter(n) - 1)

FailedBatchInserts ==
    {n \in 1..Len(stmts) : stmts[n].kind = "batch_insert" /\ ~stmts[n].ok}

\* the row at position p was written by a single-row statement that succeeded
LandedSerially(p) ==
    \E m \in 1..Len(stmts) :
        ~IsBatch(stmts[m]) /\ stmts[m].rows = <<p>> /\ stmts[m].ok

\* every statement that failed holds a row the target rejects
OnlyInvalidRowsFail ==
    \A m \in 1..Len(stmts) :
        ~stmts[m].ok => Range(stmts[m].rows) \cap bad # {}

\* C5: a failed batch insert statement hands exactly its own sub-batch to
\* serial_sink, which runs the single-row statement of each row (the upsert
\* for an Insert row) in the sub-batch's order, stopping only at a failing
\* statement; all rows of the sub-batch are run when the call goes on to
\* the next sub-batch or returns Ok; a batch statement that succeeds is
\* followed by no single-row statement; serial_sink is called once per
\* failed batch statement, with that sub-batch.
C5_FallbackReappliesSubBatch ==
    (batch /\ Len(data) > 0 /\ data[1].row_type = "Insert") =>
        /\ \A n \in 1..Len(stmts) :
              (stmts[n].kind = "batch_insert" /\ stmts[n].ok) => Segment(n) = <<>>
        /\ Len(serial_calls) = Cardinality(FailedBatchInserts)
        /\ \A n \in FailedBatchInserts :
              LET sub == stmts[n].rows
                  seg == Segment(n)
                  nth == Cardinality({m \in FailedBatchInserts : m <= n})
              IN  /\ serial_calls[nth] = sub
                  /\ Len(seg) <= Len(sub)
                  /\ \A i \in 1..Len(seg) :
                        /\ seg[i].rows = <<sub[i]>>
                        /\ seg[i].kind = StatementKind(data[sub[i]].row_type)
                        /\ data[sub[i]].row_type = "Insert" => seg[i].kind = "upsert"
                        /\ i < Len(seg) => seg[i].ok
                  /\ (NextBatchAfter(n) <= Len(stmts) \/ sink_result = "Ok")
                        => Len(seg) = Len(sub)

\* the first sub-batch (two rows) failed and was re-applied row by row,
\* the second sub-batch succeeded as a batch
C5_Witness ==
    /\ batch /\ Len(data) = 3 /\ batch_size = 2 /\ sink_result = "Ok"
    /\ \A p \in 1..3 : data[p].row_type = "Insert"
    /\ Len(stmts) = 4
    /\ stmts[1].kind = "batch_insert" /\ ~stmts[1].ok
    /\ stmts[2].rows = <<1>> /\ stmts[3].rows = <<2>>
    /\ stmts[4].kind = "batch_insert" /\ stmts[4].ok

\* C6: when a batch of inserts is rejected because of one invalid row j and
\* row j has raised its error on the serial path, every valid row of that
\* sub-batch has landed, those after j included, and the call has failed.
C6_ValidRowsLand ==
    \A n \in FailedBatchInserts :
        LET sub == Range(stmts[n].rows)
        IN  ( /\ \A p \in sub : data[p].row_type = "Insert"
              /\ Cardinality(sub \cap bad) = 1
              /\ OnlyInvalidRowsFail
              /\ \E m \in (n + 1)..Len(stmts) :
                     stmts[m].rows \in {<<j>> : j \in sub \cap bad} /\ ~stmts[m].ok )
            => /\ \A p \in sub \ bad : LandedSerially(p)
               /\ sink_result = "Panic"

\* C7: sink_dml returns Ok only if every input row is covered by a
\* statement that succeeded, and a failed single-row statement always
\* leaves the call failed.
C7_NoSilentDrop ==
    /\ sink_result = "Ok" =>
          \A p \in 1..Len(data) :
              \E m \in 1..Len(stmts) :
                  stmts[m].ok /\ p \in Range(stmts[m].rows)
    /\ (\E m \in 1..Len(stmts) : ~IsBatch(stmts[m]) /\ ~stmts[m].ok)
          => sink_result = "Panic"

\* Ok after a failed batch statement whose rows all landed serially
C7_Witness ==
    /\ sink_result = "Ok" /\ Len(data) = 3
    /\ FailedBatchInserts # {}
    /\ \A p \in 1..Len(data) : LandedSerially(p)

MixedRowTypes == \E p, q \in 1..Len(data) : data[p].row_type # data[q].row_type

\* C8: with batch = true the batch-insert (batch-delete) path is taken only
\* when all rows are Insert (Delete); for mixed row types or Update every
\* row goes through the serial path with the statement of its own type.
C8_BatchOnlyWhenUniform ==
    batch =>
        /\ (\E m \in 1..Len(stmts) : stmts[m].kind = "batch_insert")
              => \A p \in 1..Len(data) : data[p].row_type = "Insert"
        /\ (\E m \in 1..Len(stmts) : stmts[m].kind = "batch_delete")
              => \A p \in 1..Len(data) : data[p].row_type = "Delete"
        /\ (Len(data) > 0 /\ (MixedRowTypes \/ data[1].row_type = "Update"))
              => /\ sink_pc \notin {"batch_insert", "batch_delete"}
                 /\ \A m \in 1..Len(stmts) :
                       /\ stmts[m].rows = <<m>>
                       /\ stmts[m].kind = StatementKind(data[m].row_type)
                 /\ sink_result = "Ok" => Len(stmts) = Len(data)

\* ---------------------------------------------------------------------
\* Consumer and producer task

\* C11: the consumer exits only after every row the extractor pushed was
\* drained and handed to the sinkers: once it has exited the buffer is
\* empty, the rows handed over are exactly the rows pushed, in order, and
\* the extractor has finished.
C11_ExitAfterAllSunk ==
    cons_pc = "exit" =>
        /\ buffer = <<>>
        /\ sunk = pushed
        /\ pc \in {"done", "failed"}

\* the consumer exited after handing over three rows in at least two
\* batches' worth of pushes
C11_Witness ==
    /\ cons_pc = "exit" /\ pc = "done"
    /\ Len(sunk) = 3 /\ slice_size = 1

\* C12: whenever the producer side has finished running extract (it
\* returned Ok, it returned Err and the producer task took note, or a read
\* or push failure ended it), the shutdown flag is true.
C12_ShutdownWhenProducerFinished ==
    pc \in {"done", "failed", "panic"} => shut_down

\* C13: for a static table, slice_size >= 1, no errors and fair scheduling
\* of producer and consumer, extract eventually stores the flag and returns
\* Ok and the consumer eventually exits; for an empty table nothing was
\* pushed by then.
C13_GracefulShutdown ==
    (slice_size >= 1 /\ [](pc # "err")) =>
        <>(/\ pc = "done" /\ shut_down
           /\ cons_pc = "exit"
           /\ (initial = {} => pushed = <<>>))

\* the scan of an empty table has ended with the consumer's exit
C13_Witness ==
    /\ pc = "done" /\ shut_down /\ cons_pc = "exit"
    /\ has_order_col /\ slice_size = MaxSlice /\ initial = {} /\ pushed = <<>>
    /\ queries = 1

\* C18: a read error while rows are streamed never ends the task by a
\* panic: from a state reading the result set the next state is never the
\* panicked one.
C18_ReadErrorIsErrValue ==
    [][(pc = "fetch" \/ pc = "all_fetch") => pc' # "panic"]_vars

\* C20: when a slice query is issued start is None if and only if no row
\* was pushed so far, and otherwise it is the order_col value of the row
\* pushed last; two queries with the same number of pushed rows bind the
\* same start, and the starts of successive filtered queries increase
\* strictly.
C20_StartFollowsLastPush ==
    \A i \in 1..Len(query_log) :
        LET q == query_log[i] IN
        /\ (q.start = <<>>) <=> (q.npushed = 0)
        /\ q.npushed > 0 => q.start = <<pushed[q.npushed]>>
        /\ \A j \in 1..(i - 1) :
              LET r == query_log[j] IN
              /\ r.npushed = q.npushed => r.start = q.start
              /\ (r.start # <<>> /\ q.start # <<>>) => r.start[1] < q.start[1]

\* three queries, the second and third filtered, the third returning no row
C20_Witness ==
    /\ Len(query_log) = 3 /\ slice_size = 1 /\ slice_log = <<1, 1, 0>>
    /\ query_log[1].start = <<>>
    /\ query_log[2].start # <<>> /\ query_log[3].start # <<>>
    /\ inserted = {}

\* ---------------------------------------------------------------------
\* SnapshotParallelizer, the rule itself

\* C19: for P <= 1 partition returns the input as its single partition; for
\* P >= 2 it returns exactly P partitions and, with avg = floor(len/P) + 1,
\* the row at index i is in partition floor(i/avg), which is below P, at
\* offset i mod avg, and the partitions hold no other row; ten rows over
\* three partitions give runs of 4, 4 and 2 rows.
C19_PartitionRule ==
    /\ partition(<<1, 2, 3, 4, 5, 6, 7, 8, 9, 10>>, 3) =
          [result |-> "Ok",
           sub_datas |-> <<<<1, 2, 3, 4>>, <<5, 6, 7, 8>>, <<9, 10>>>>]
    /\ part_pc # "start" =>
        /\ part_pc = "Ok"
        /\ parallel_size <= 1 => sub_datas = <<part_data>>
        /\ parallel_size >= 2 =>
              LET len == Len(part_data)
                  avg == (len \div parallel_size) + 1
              IN  /\ Len(sub_datas) = parallel_size
                  /\ \A i \in 0..(len - 1) :
                        /\ i \div avg < parallel_size
                        /\ Len(sub_datas[(i \div avg) + 1]) >= (i % avg) + 1
                        /\ sub_datas[(i \div avg) + 1][(i % avg) + 1]
                              = part_data[i + 1]
                  /\ \A k \in 1..parallel_size :
                        Len(sub_datas[k]) =
                            Cardinality({i \in 0..(len - 1) : i \div avg = k - 1})

\* three rows over three partitions: avg = 2, the last partition is empty
C19_Witness ==
    /\ part_pc = "Ok" /\ parallel_size = 3 /\ Len(part_data) = 3
    /\ Len(sub_datas) = 3
    /\ Len(sub_datas[1]) = 2 /\ Len(sub_datas[2]) = 1 /\ sub_datas[3] = <<>>

\* ---------------------------------------------------------------------
\* PgSinker, the batch delete path and the upsert

\* C14: a failed batch DELETE statement is followed by a serial_sink call
\* on the rows of its sub-batch, and the panic is not raised by the batch
\* statement itself.
C14_BatchDeleteFallsBack ==
    \A m \in 1..Len(stmts) :
        (stmts[m].kind = "batch_delete" /\ ~stmts[m].ok) =>
            /\ \E c \in 1..Len(serial_calls) : serial_calls[c] = stmts[m].rows
            /\ ~(m = Len(stmts) /\ sink_result = "Panic")

AllInserts == \A p \in 1..Len(data) : data[p].row_type = "Insert"

\* the positions of the rows that are the last of their id in data
LastOfId == {p \in 1..Len(data) :
                \A r \in (p + 1)..Len(data) : data[r].id # data[p].id}

\* C16: for data of Insert rows only, no statement fails on a duplicate
\* key; when sink_dml has returned Ok the target holds, for every id, the
\* values of the last row of that id; and after the second application of
\* the same data the target equals the target after the first.
C16_InsertsIdempotent ==
    AllInserts =>
        /\ \A m \in 1..Len(stmts) : ~stmts[m].dup
        /\ sink_result = "Ok" => target = {<<data[p].id, p>> : p \in LastOfId}
        /\ (run = 2 /\ sink_result = "Ok") => target = first_target

\* three inserts, the first and the last of the same id, applied twice,
\* the second time with single-row statements
C16_Witness ==
    /\ run = 2 /\ sink_result = "Ok" /\ AllInserts
    /\ Len(data) = 3 /\ data[1].id = data[3].id /\ data[2].id # data[1].id
    /\ target = {<<data[2].id, 2>>, <<data[3].id, 3>>}
    /\ first_target = target
    /\ stmts[Len(stmts)].kind = "upsert"

\* ============================================== PgSinker::get_insert_query
\* sql_util.get_insert_query(row_data): INSERT INTO tb(cols) VALUES(..) with
\* one placeholder per column of the table; the cols it returns
InsertQueryCols(cols) == cols

\* the loop over tb_meta.basic.cols: one SET pair per column, the
\* placeholders numbered from placeholder_index on
SetPairs(cols, placeholder_index) ==
    [i \in 1..Len(cols) |->
        [col |-> cols[i], placeholder |-> placeholder_index + i - 1]]

\* get_insert_query(sql_util, tb_meta, row_data)
GetInsertQuery ==
    /\ q_pc = "start"
    /\ \/ /\ q_cols' = InsertQueryCols(meta_cols) \o meta_cols
          /\ set_pairs' = SetPairs(meta_cols, Len(InsertQueryCols(meta_cols)) + 1)
          /\ conflict_cols' = meta_id_cols
          /\ q_pc' = "done"
       \/ /\ q_pc' = "err"
          /\ UNCHANGED <<q_cols, set_pairs, conflict_cols>>
    /\ UNCHANGED <<meta_cols, meta_id_cols>>

InitQuery ==
    /\ meta_cols \in {c \in SeqsUpTo(1..MaxCols, MaxCols) :
                          c # <<>> /\ NoDuplicates(c)}
    /\ meta_id_cols \in (SUBSET Range(meta_cols)) \ {{}}
    /\ q_pc = "start"
    /\ q_cols = <<>> /\ set_pairs = <<>> /\ conflict_cols = {}
    /\ ExtractIdle
    /\ PartitionIdle
    /\ SinkIdle
    /\ StructIdle

NextQuery ==
    GetInsertQuery /\ UNCHANGED <<evars, query_log, cvars, pvars, svars, rvars, tvars>>

SpecQuery == InitQuery /\ [][NextQuery]_vars

\* C15: the columns assigned in ON CONFLICT .. DO UPDATE SET are exactly
\* the table's columns that are not in id_cols.
C15_SetCoversNonKeyColumns ==
    q_pc = "done" =>
        {set_pairs[i].col : i \in 1..Len(set_pairs)}
            = Range(meta_cols) \ meta_id_cols

\* =================================================== MysqlStructExtractor
\* a step returning Err, propagated by ? up to extract()'s caller
StructFail ==
    /\ st_pc' = "done"
    /\ st_result' = "Err"
    /\ st_fail_len' = Len(st_pushed)

\* MysqlMetaManager::new(..).init().await?
StructMetaInit ==
    /\ st_pc = "start"
    /\ \/ st_pc' = "db" /\ UNCHANGED <<st_result, st_fail_len>>
       \/ StructFail
    /\ UNCHANGED <<st_tables, st_idx, st_pushed>>

\* pg_fetcher.get_create_database_statement().await?
GetCreateDatabase ==
    /\ st_pc = "db"
    /\ \/ st_pc' = "push_db" /\ UNCHANGED <<st_result, st_fail_len>>
       \/ StructFail
    /\ UNCHANGED <<st_tables, st_idx, st_pushed>>

\* self.push_dt_data(MysqlCreateDatabase { .. }).await?
PushDatabase ==
    /\ st_pc = "push_db"
    /\ \/ /\ st_pushed' = Append(st_pushed, [kind |-> "db", stmt |-> 0])
          /\ st_pc' = "tables"
          /\ UNCHANGED <<st_result, st_fail_len>>
       \/ StructFail /\ UNCHANGED st_pushed
    /\ UNCHANGED <<st_tables, st_idx>>

\* pg_fetcher.get_create_table_statements("").await?
GetCreateTables ==
    /\ st_pc = "tables"
    /\ \/ /\ st_tables' \in {t \in SeqsUpTo(1..MaxTables, MaxTables) :
                                 NoDuplicates(t)}
          /\ st_idx' = 0
          /\ st_pc' = "push_tb"
          /\ UNCHANGED <<st_result, st_fail_len>>
       \/ StructFail /\ UNCHANGED <<st_tables, st_idx>>
    /\ UNCHANGED st_pushed

\* a failed push that is passed over: the loop goes on with the next
PushTableSkipOnError ==
    /\ st_pc = "push_tb"
    /\ st_idx < Len(st_tables)
    /\ \/ /\ st_pushed' = Append(st_pushed,
                                 [kind |-> "table", stmt |-> st_tables[st_idx + 1]])
          /\ UNCHANGED st_fail_len
       \/ /\ st_fail_len' = Len(st_pushed)
          /\ UNCHANGED st_pushed
    /\ st_idx' = st_idx + 1
    /\ UNCHANGED <<st_pc, st_result, st_tables>>

\* one turn of the for loop: push_dt_data(MysqlCreateTable { .. }).await?
PushTable ==
    /\ st_pc = "push_tb"
    /\ st_idx < Len(st_tables)
    /\ \/ /\ st_pushed' = Append(st_pushed,
                                 [kind |-> "table", stmt |-> st_tables[st_idx + 1]])
          /\ st_idx' = st_idx + 1
          /\ UNCHANGED <<st_pc, st_result, st_fail_len>>
       \/ StructFail /\ UNCHANGED <<st_pushed, st_idx>>
    /\ UNCHANGED st_tables

\* the for loop is over: extract_internal returns Ok(())
EndTables ==
    /\ st_pc = "push_tb"
    /\ st_idx = Len(st_tables)
    /\ st_pc' = "wait"
    /\ UNCHANGED <<st_tables, st_idx, st_pushed, st_fail_len, st_result>>

\* self.base_extractor.wait_task_finish().await, extract()'s result
WaitTaskFinish ==
    /\ st_pc = "wait"
    /\ \/ st_pc' = "done" /\ st_result' = "Ok" /\ UNCHANGED st_fail_len
       \/ StructFail
    /\ UNCHANGED <<st_tables, st_idx, st_pushed>>

InitStruct ==
    /\ st_pc = "start" /\ st_tables = <<>> /\ st_idx = 0 /\ st_pushed = <<>>
    /\ st_fail_len = -1 /\ st_result = "none"
    /\ ExtractIdle
    /\ PartitionIdle
    /\ SinkIdle
    /\ QueryIdle

NextStruct ==
    \/ (StructMetaInit /\ UNCHANGED <<evars, query_log, cvars, pvars, svars, rvars, qvars>>)
    \/ (GetCreateDatabase /\ UNCHANGED <<evars, query_log, cvars, pvars, svars, rvars, qvars>>)
    \/ (PushDatabase /\ UNCHANGED <<evars, query_log, cvars, pvars, svars, rvars, qvars>>)
    \/ (GetCreateTables /\ UNCHANGED <<evars, query_log, cvars, pvars, svars, rvars, qvars>>)
    \/ (PushTable /\ UNCHANGED <<evars, query_log, cvars, pvars, svars, rvars, qvars>>)
    \/ (EndTables /\ UNCHANGED <<evars, query_log, cvars, pvars, svars, rvars, qvars>>)
    \/ (WaitTaskFinish /\ UNCHANGED <<evars, query_log, cvars, pvars, svars, rvars, qvars>>)

SpecStruct == InitStruct /\ [][NextStruct]_vars

\* C17: the first item pushed is the one create-database item and every
\* later item is a create-table item, the k-th of them the k-th statement
\* the fetcher returned; after a failed step nothing more is pushed and the
\* result is not Ok; Ok is returned only when the database item and every
\* table statement were pushed and wait_task_finish has returned.
C17_DatabaseThenTables ==
    /\ \A i \in 1..Len(st_pushed) :
          IF i = 1 THEN st_pushed[i].kind = "db"
          ELSE /\ st_pushed[i].kind = "table"
               /\ i - 1 <= Len(st_tables)
               /\ st_pushed[i].stmt = st_tables[i - 1]
    /\ st_fail_len >= 0 => (Len(st_pushed) = st_fail_len /\ st_result = "Err")
    /\ st_result = "Ok" =>
          /\ st_pc = "done"
          /\ Len(st_pushed) = 1 + Len(st_tables)

\* Ok after the database item and three table statements, not in the
\* order of their names
C17_Witness ==
    /\ st_result = "Ok" /\ Len(st_pushed) = 4
    /\ st_tables = <<2, 3, 1>>

\* ---------------------------------------------------------------------
\* Termination of the slice loop

InSliceLoop == pc \in {"query", "fetch", "push"}

\* the slice loop was left (the scan returned to extract_internal)
C21_Original ==
    (has_order_col /\ [](pc \notin {"err", "failed"})) => <>Returned

\* C21: for a static table without errors and with fair scheduling the
\* slice loop is left when slice_size >= 1; with slice_size = 0 every
\* query returns no row, 0 < 0 is false, and the loop is never left.
C21_SliceLoopExits ==
    /\ (has_order_col /\ slice_size >= 1 /\ [](pc \notin {"err", "failed"}))
          => <>Returned
    /\ [](has_order_col /\ slice_size = 0 /\ pc # "start" /\ pc # "err"
             /\ pc # "failed" => InSliceLoop /\ pushed = <<>>)

\* a scan of one-row slices over a full table has left the loop after one
\* query more than there are rows
C21_Witness ==
    /\ has_order_col /\ slice_size = 1 /\ pc = "wait"
    /\ Cardinality(initial) = MaxKey
    /\ Len(pushed) = MaxKey
    /\ queries = MaxKey + 1

====
